---------------------------- MODULE Spec2Model ----------------------------
(***************************************************************************)
(* Model of scripts/check_test_regression.py: the log parser, the          *)
(* percentile engine, the aggregator, the baseline store (save_baseline /  *)
(* load_baseline), the regression classifier (check_regressions), the      *)
(* JSON report, main and its exit code, and two invocations of             *)
(* main --update-baseline that write the same baseline file at the same    *)
(* time.                                                                   *)
(*                                                                         *)
(* Numbers.  Python computes on floats, and so does the model: every      *)
(* float is an IEEE 754 double and every operation on floats rounds as     *)
(* the double operation does.  Durations are integers (milliseconds) and   *)
(* percentiles are whole percents.  A decimal number that the program      *)
(* reads or writes (a value of the baseline file, a value rounded with     *)
(* round(x, 2) or round(x, 1)) is held as the integer count of its last    *)
(* decimal place (12550 hundredths are 125.5) and becomes the nearest      *)
(* double where the program computes with it.  A file is held as the       *)
(* pieces of its text, and its length is counted in bytes.                 *)
(***************************************************************************)
EXTENDS Integers, Sequences, FiniteSets, TLC

VARIABLES
    durations,      \* percentile engine: the values passed to calculate_percentile
    percentile,     \* percentile engine: the percentile passed (whole percents)
    pct_result,     \* percentile engine: the value returned
    baseline_file,  \* the baseline file on disk: [exists, text]
    timings,        \* the list[TestTiming] parsed or passed in the current call
    platform,       \* detect_platform() of the current process
    args,           \* main's parsed arguments
    baselines,      \* the dict[str, TestBaseline] load_baseline returned
    report,         \* the RegressionReport check_regressions returned
    exit_code,      \* the exit status of the process that ran main
    raised,         \* the exception that left the call, or "none"
    pc,             \* which call has completed in this process, or "idle"
    writers,        \* concurrent invocations: [pc, timings, text] each
    last_write      \* the invocation whose write to the file came last

vars == <<durations, percentile, pct_result, baseline_file, timings, platform,
          args, baselines, report, exit_code, raised, pc, writers, last_write>>

(***************************************************************************)
(* Program constants.                                                      *)
(***************************************************************************)
OUTLIER_PERCENTILE == 95

(***************************************************************************)
(* Bounds of the model.                                                    *)
(***************************************************************************)
\* longest list handed to calculate_percentile in SpecPct
MaxSamples == 3
\* longest list of timing records of one call
MaxTimings == 2

\* the durations drawn for the percentile engine
SampleValues == {0, 10, 20, 50}
\* the percentiles drawn: every whole percent of [0, 100]
Percentiles == 0..100

(***************************************************************************)
(* Python floats: IEEE 754 doubles.  TLC's integers have 32 bits and a     *)
(* double has a mantissa of 53, so the mantissa is a tuple of 4 limbs in   *)
(* base 2^14, least significant first.  A float is                         *)
(*   [sign |-> 1 or -1, m |-> mantissa, e |-> exponent]                    *)
(* with the value sign * m * 2^e and 2^52 <= m < 2^53; zero is FZero.      *)
(* Every operation yields the double nearest to the exact result, ties to  *)
(* the even mantissa, as the hardware does.  Exponents are not bounded:    *)
(* there is no overflow, no subnormal and no NaN, none of which the        *)
(* durations of a test run reach; and zero has no sign.                    *)
(***************************************************************************)
LimbBits == 14
Base == 2^LimbBits
MantissaBits == 53
\* the bits of the most significant limb of a mantissa
TopBits == MantissaBits - 3 * LimbBits

NoLimbs == <<0, 0, 0, 0>>
FZero == [sign |-> 1, m |-> NoLimbs, e |-> 0]

\* limb i of the natural number w (from 1), 0 above its last limb
Limb(w, i) == IF i >= 1 /\ i <= Len(w) THEN w[i] ELSE 0

\* the number of bits of a limb
BitLen(x) ==
    IF x < 128
    THEN IF x < 8
         THEN (IF x < 2 THEN x ELSE IF x < 4 THEN 2 ELSE 3)
         ELSE IF x < 32 THEN (IF x < 16 THEN 4 ELSE 5)
         ELSE (IF x < 64 THEN 6 ELSE 7)
    ELSE IF x < 2048
         THEN IF x < 512 THEN (IF x < 256 THEN 8 ELSE 9)
              ELSE (IF x < 1024 THEN 10 ELSE 11)
         ELSE IF x < 8192 THEN (IF x < 4096 THEN 12 ELSE 13)
         ELSE 14

\* the index of the most significant limb of w that is not 0, or 0
TopLimb(w) ==
    IF Limb(w, 8) # 0 THEN 8
    ELSE IF Limb(w, 7) # 0 THEN 7
    ELSE IF Limb(w, 6) # 0 THEN 6
    ELSE IF Limb(w, 5) # 0 THEN 5
    ELSE IF Limb(w, 4) # 0 THEN 4
    ELSE IF Limb(w, 3) # 0 THEN 3
    ELSE IF Limb(w, 2) # 0 THEN 2
    ELSE IF Limb(w, 1) # 0 THEN 1
    ELSE 0

\* the number of bits of the natural number w
Bits(w) ==
    IF TopLimb(w) = 0 THEN 0
    ELSE LimbBits * (TopLimb(w) - 1) + BitLen(w[TopLimb(w)])

\* the 4 low limbs of w * 2^s
ShiftLeft(w, s) ==
    LET ls == s \div LimbBits
        b == s % LimbBits
        at(j) == ((Limb(w, j - ls) * 2^b) % Base)
                     + (Limb(w, j - ls - 1) \div 2^(LimbBits - b))
    IN  <<at(1), at(2), at(3), at(4)>>

\* the 8 low limbs of w * 2^s
ShiftLeftWide(w, s) ==
    LET ls == s \div LimbBits
        b == s % LimbBits
        at(j) == ((Limb(w, j - ls) * 2^b) % Base)
                     + (Limb(w, j - ls - 1) \div 2^(LimbBits - b))
    IN  <<at(1), at(2), at(3), at(4), at(5), at(6), at(7), at(8)>>

\* the 4 low limbs of w \div 2^s
ShiftRight(w, s) ==
    LET ls == s \div LimbBits
        b == s % LimbBits
        at(j) == (Limb(w, j + ls) \div 2^b)
                     + (Limb(w, j + ls + 1) % 2^b) * 2^(LimbBits - b)
    IN  <<at(1), at(2), at(3), at(4)>>

\* w / 2^s, s > 0, is rounded up to the next integer: the part cut off is
\* above a half, or it is a half and the integer part is odd.  sticky says
\* that w itself was cut off from a larger number.
RoundsUp(w, s, sticky, odd) ==
    LET at == ((s - 1) \div LimbBits) + 1
        b == (s - 1) % LimbBits
    IN  /\ (Limb(w, at) \div 2^b) % 2 = 1
        /\ \/ sticky
           \/ odd
           \/ Limb(w, at) % 2^b # 0
           \/ \E i \in 1..(at - 1) : Limb(w, i) # 0

\* the mantissa after m; the one after the last mantissa is 2^53
Increment(m) ==
    IF m[1] + 1 < Base THEN <<m[1] + 1, m[2], m[3], m[4]>>
    ELSE IF m[2] + 1 < Base THEN <<0, m[2] + 1, m[3], m[4]>>
    ELSE IF m[3] + 1 < Base THEN <<0, 0, m[3] + 1, m[4]>>
    ELSE <<0, 0, 0, m[4] + 1>>

\* the float sign * up * 2^e for up the mantissa after another one
RoundedUp(sign, up, e) ==
    IF up[4] = 2^TopBits
    THEN [sign |-> sign, m |-> <<0, 0, 0, 2^(TopBits - 1)>>, e |-> e + 1]
    ELSE [sign |-> sign, m |-> up, e |-> e]

\* the double nearest to sign * w * 2^e for w of more than 53 bits, s bits
\* more, and q = w \div 2^s
RoundedCut(sign, w, e, sticky, s, q) ==
    IF RoundsUp(w, s, sticky, q[1] % 2 = 1)
    THEN RoundedUp(sign, Increment(q), e + s)
    ELSE [sign |-> sign, m |-> q, e |-> e + s]

\* the double nearest to sign * w * 2^e for w of len bits
RoundedBits(sign, w, e, sticky, len) ==
    IF len = 0 THEN FZero
    ELSE IF len <= MantissaBits
    THEN [sign |-> sign, m |-> ShiftLeft(w, MantissaBits - len),
          e |-> e + len - MantissaBits]
    ELSE RoundedCut(sign, w, e, sticky, len - MantissaBits,
                    ShiftRight(w, len - MantissaBits))

\* the double nearest to sign * w * 2^e for a natural number w of up to 8
\* limbs
FRound(sign, w, e, sticky) == RoundedBits(sign, w, e, sticky, Bits(w))

\* float(n) of an int
FInt(n) ==
    LET a == IF n < 0 THEN -n ELSE n
    IN  FRound(IF n < 0 THEN -1 ELSE 1,
               <<a % Base, (a \div Base) % Base, a \div (Base * Base)>>,
               0, FALSE)

\* -a
FNeg(a) == IF a.m = NoLimbs THEN a ELSE [a EXCEPT !.sign = -a.sign]

\* mantissa x < mantissa y
Less(x, y) ==
    \/ x[4] < y[4]
    \/ /\ x[4] = y[4]
       /\ \/ x[3] < y[3]
          \/ /\ x[3] = y[3]
             /\ \/ x[2] < y[2]
                \/ x[2] = y[2] /\ x[1] < y[1]

\* |a| < |b|
FLessAbs(a, b) ==
    IF b.m = NoLimbs THEN FALSE
    ELSE IF a.m = NoLimbs THEN TRUE
    ELSE a.e < b.e \/ (a.e = b.e /\ Less(a.m, b.m))

\* a < b
FLT(a, b) ==
    IF a.sign # b.sign THEN a.sign < b.sign
    ELSE IF a.sign = 1 THEN FLessAbs(a, b)
    ELSE FLessAbs(b, a)

\* a <= b
FLE(a, b) == ~FLT(b, a)

\* x + k * y for a natural number x of 8 limbs, a mantissa y and k = 1, or
\* k = -1 and x >= y; a limb that is negative borrows from the next one
\* (\div rounds down)
AddWide(x, y, k) ==
    LET s1 == x[1] + k * y[1]
        s2 == x[2] + k * y[2] + (s1 \div Base)
        s3 == x[3] + k * y[3] + (s2 \div Base)
        s4 == x[4] + k * y[4] + (s3 \div Base)
        s5 == x[5] + (s4 \div Base)
        s6 == x[6] + (s5 \div Base)
        s7 == x[7] + (s6 \div Base)
        s8 == x[8] + (s7 \div Base)
    IN  <<s1 % Base, s2 % Base, s3 % Base, s4 % Base,
          s5 % Base, s6 % Base, s7 % Base, s8 % Base>>

\* x + k * y for natural numbers of 8 limbs and k = 1, or k = -1 and x >= y
AddLong(x, y, k) ==
    LET s1 == x[1] + k * y[1]
        s2 == x[2] + k * y[2] + (s1 \div Base)
        s3 == x[3] + k * y[3] + (s2 \div Base)
        s4 == x[4] + k * y[4] + (s3 \div Base)
        s5 == x[5] + k * y[5] + (s4 \div Base)
        s6 == x[6] + k * y[6] + (s5 \div Base)
        s7 == x[7] + k * y[7] + (s6 \div Base)
        s8 == x[8] + k * y[8] + (s7 \div Base)
    IN  <<s1 % Base, s2 % Base, s3 % Base, s4 % Base,
          s5 % Base, s6 % Base, s7 % Base, s8 % Base>>

\* a + b for |a| >= |b|.  A b below an eighth of the last bit of a does not
\* change a.
AddOrdered(a, b) ==
    IF b.m = NoLimbs \/ a.e - b.e > MantissaBits + 2 THEN a
    ELSE FRound(a.sign,
                AddWide(ShiftLeftWide(a.m, a.e - b.e), b.m, a.sign * b.sign),
                b.e, FALSE)

\* a + b
FAdd(a, b) ==
    AddOrdered(IF FLessAbs(a, b) THEN b ELSE a,
               IF FLessAbs(a, b) THEN a ELSE b)

\* a - b
FSub(a, b) == FAdd(a, FNeg(b))

\* x * y for mantissas, in 8 limbs: the columns of the long multiplication,
\* each with the carry of the column before
MulWide(x, y) ==
    LET c1 == x[1] * y[1]
        c2 == x[1] * y[2] + x[2] * y[1] + (c1 \div Base)
        c3 == x[1] * y[3] + x[2] * y[2] + x[3] * y[1] + (c2 \div Base)
        c4 == x[1] * y[4] + x[2] * y[3] + x[3] * y[2] + x[4] * y[1]
                  + (c3 \div Base)
        c5 == x[2] * y[4] + x[3] * y[3] + x[4] * y[2] + (c4 \div Base)
        c6 == x[3] * y[4] + x[4] * y[3] + (c5 \div Base)
        c7 == x[4] * y[4] + (c6 \div Base)
    IN  <<c1 % Base, c2 % Base, c3 % Base, c4 % Base,
          c5 % Base, c6 % Base, c7 % Base, c7 \div Base>>

\* a * b
FMul(a, b) == FRound(a.sign * b.sign, MulWide(a.m, b.m), a.e + b.e, FALSE)

\* x * k for a mantissa x and 0 <= k < Base, in 5 limbs
MulSmall(x, k) ==
    LET c1 == x[1] * k
        c2 == x[2] * k + (c1 \div Base)
        c3 == x[3] * k + (c2 \div Base)
        c4 == x[4] * k + (c3 \div Base)
    IN  <<c1 % Base, c2 % Base, c3 % Base, c4 % Base, c4 \div Base>>

\* x * k for a natural number x of 8 limbs and 0 <= k < Base, the product
\* below Base^8
MulLong(x, k) ==
    LET c1 == x[1] * k
        c2 == x[2] * k + (c1 \div Base)
        c3 == x[3] * k + (c2 \div Base)
        c4 == x[4] * k + (c3 \div Base)
        c5 == x[5] * k + (c4 \div Base)
        c6 == x[6] * k + (c5 \div Base)
        c7 == x[7] * k + (c6 \div Base)
        c8 == x[8] * k + (c7 \div Base)
    IN  <<c1 % Base, c2 % Base, c3 % Base, c4 % Base,
          c5 % Base, c6 % Base, c7 % Base, c8 % Base>>

\* x - y for a natural number x of 5 limbs and y of 4 or 5, x >= y
SubSmall(x, y) ==
    LET d1 == x[1] - y[1]
        d2 == x[2] - y[2] + (d1 \div Base)
        d3 == x[3] - y[3] + (d2 \div Base)
        d4 == x[4] - y[4] + (d3 \div Base)
        d5 == x[5] - Limb(y, 5) + (d4 \div Base)
    IN  <<d1 % Base, d2 % Base, d3 % Base, d4 % Base, d5 % Base>>

\* The long division by the mantissa y.  Its state is [q, x]: the digits of
\* the quotient found so far, least significant first, and the natural
\* number of 5 limbs to divide next, x < y * Base.
\* The next digit estimated from the leading bits of x and y: the digit or
\* one below it.
Estimate(x, y) ==
    (x[5] * 2^(2 * LimbBits - TopBits + 1) + x[4] * 2^(LimbBits - TopBits + 1)
        + (x[3] \div 2^(TopBits - 1)))
    \div (y[4] * 2^(LimbBits - TopBits + 1) + (y[3] \div 2^(TopBits - 1)) + 1)

\* the state after the digit est or est + 1, rest = x - y * est
DivideDigit(st, y, est, rest) ==
    IF rest[5] # 0 \/ ~Less(rest, y)
    THEN [q |-> <<est + 1>> \o st.q,
          x |-> <<0>> \o SubSeq(SubSmall(rest, y), 1, 4)]
    ELSE [q |-> <<est>> \o st.q, x |-> <<0>> \o SubSeq(rest, 1, 4)]

\* the state after the digit that is est or est + 1
DivideFrom(st, y, est) ==
    DivideDigit(st, y, est, SubSmall(st.x, MulSmall(y, est)))

\* the state after the next digit
DivideStep(st, y) == DivideFrom(st, y, Estimate(st.x, y))

\* sign * q * 2^e for the quotient q of the state st, the remainder as the
\* sticky bit
Quotient(sign, st, e) == FRound(sign, st.q, e, st.x # <<0, 0, 0, 0, 0>>)

\* a / b, b not 0: the long division of a.m * Base^4 by b.m in 5 digits
FDiv(a, b) ==
    IF a.m = NoLimbs THEN FZero
    ELSE Quotient(a.sign * b.sign,
                  DivideStep(DivideStep(DivideStep(DivideStep(DivideStep(
                      [q |-> <<>>, x |-> a.m \o <<0>>],
                      b.m), b.m), b.m), b.m), b.m),
                  a.e - b.e - 4 * LimbBits)

\* the float of the fraction num / den of two ints, as float("1.25") and
\* statistics.mean yield it
float(num, den) == FDiv(FInt(num), FInt(den))

\* the natural number of at most 3 limbs (4 for a number that has no int)
ToInt(w) == w[1] + Base * (w[2] + Base * (w[3] + Base * w[4]))

\* int(x): x without its fraction, for |x| < 2^31
int(x) ==
    IF x.m = NoLimbs THEN 0 ELSE x.sign * ToInt(ShiftRight(x.m, -x.e))

\* the integer nearest to w / 2^s, ties to even
NearestInt(w, s) ==
    ToInt(ShiftRight(w, s))
        + (IF RoundsUp(w, s, FALSE, ToInt(ShiftRight(w, s)) % 2 = 1)
           THEN 1 ELSE 0)

\* round(x, ndigits) in units of the last digit, scale = 10^ndigits < Base:
\* the integer nearest to the exact x * scale, ties to even, for
\* |x| * scale < 2^31
round(x, scale) ==
    IF x.m = NoLimbs THEN 0
    ELSE x.sign * NearestInt(MulSmall(x.m, scale), -x.e)

\* the 9 low limbs of w * 2^s
ShiftLeftLong(w, s) ==
    LET ls == s \div LimbBits
        b == s % LimbBits
        at(j) == ((Limb(w, j - ls) * 2^b) % Base)
                     + (Limb(w, j - ls - 1) \div 2^(LimbBits - b))
    IN  <<at(1), at(2), at(3), at(4), at(5), at(6), at(7), at(8), at(9)>>

\* the natural number w of 9 limbs divided by k, 0 < k < Base and
\* w < k * Base^8: [q, x], the quotient in 8 limbs and the remainder
DivideSmall(w, k) ==
    LET r8 == w[9] * Base + w[8]
        r7 == (r8 % k) * Base + w[7]
        r6 == (r7 % k) * Base + w[6]
        r5 == (r6 % k) * Base + w[5]
        r4 == (r5 % k) * Base + w[4]
        r3 == (r4 % k) * Base + w[3]
        r2 == (r3 % k) * Base + w[2]
        r1 == (r2 % k) * Base + w[1]
    IN  [q |-> <<r1 \div k, r2 \div k, r3 \div k, r4 \div k,
                 r5 \div k, r6 \div k, r7 \div k, r8 \div k>>,
         x |-> r1 % k]

\* x < y for natural numbers of 8 limbs, decided at the highest limb in
\* which they differ
LessWide(x, y) ==
    IF x[8] # y[8] THEN x[8] < y[8]
    ELSE IF x[7] # y[7] THEN x[7] < y[7]
    ELSE IF x[6] # y[6] THEN x[6] < y[6]
    ELSE IF x[5] # y[5] THEN x[5] < y[5]
    ELSE IF x[4] # y[4] THEN x[4] < y[4]
    ELSE IF x[3] # y[3] THEN x[3] < y[3]
    ELSE IF x[2] # y[2] THEN x[2] < y[2]
    ELSE x[1] < y[1]

\* r + 2^b for a natural number r of 4 limbs whose bit b is 0
WithBit(r, b) ==
    [r EXCEPT ![(b \div LimbBits) + 1] = @ + 2^(b % LimbBits)]

\* the square of c (4 limbs) is more than a (8 limbs)
SquareExceeds(c, a) == LessWide(a, MulWide(c, c))

\* the largest natural number of 4 limbs whose square is at most a (8
\* limbs) among those that differ from r in the bits b down to 0 only
RECURSIVE SquareRootBits(_, _, _)
SquareRootBits(a, r, b) ==
    IF b < 0 THEN r
    ELSE IF SquareExceeds(WithBit(r, b), a) THEN SquareRootBits(a, r, b - 1)
    ELSE SquareRootBits(a, WithBit(r, b), b - 1)

\* the largest int whose square is at most h, h < Base^2, among those that
\* differ from r in the bits b down to 0 only
RECURSIVE SquareRootLimb(_, _, _)
SquareRootLimb(h, r, b) ==
    IF b < 0 THEN r
    ELSE IF (r + 2^b) * (r + 2^b) > h THEN SquareRootLimb(h, r, b - 1)
    ELSE SquareRootLimb(h, r + 2^b, b - 1)

\* the integer part of the square root of a (8 limbs): its highest limb is
\* the integer part of the square root of the two highest limbs of a
SquareRoot(a) ==
    SquareRootBits(a, <<0, 0, 0,
                        SquareRootLimb(a[8] * Base + a[7], 0, LimbBits - 1)>>,
                   3 * LimbBits - 1)

\* the float nearest to sqrt(a) * 2^e for the quotient a = [q, x] of a
\* division, with r the integer part of the square root of a.q; what r
\* leaves out is the sticky bit
RootRounded(a, r, e) == FRound(1, r, e, a.x # 0 \/ MulWide(r, r) # a.q)

\* the float nearest to sqrt(a) * 2^e for the quotient a = [q, x]
RootOf(a, e) ==
    RootRounded(a, SquareRoot(a.q), e)

\* the float nearest to sqrt(x / k), computed from x * 2^t / k, t even
RootShifted(x, k, t) ==
    RootOf(DivideSmall(ShiftLeftLong(x, t), k), -(t \div 2))

\* the float nearest to the square root of x / k for a natural number x of
\* 8 limbs, x < 2^96, and an int k, 0 < k < Base, as statistics.stdev takes
\* the root of the exact variance (_float_sqrt_of_frac).  The root is taken
\* of x * 2^t / k for the least even t that gives it 109 bits or more.
FSqrtFrac(x, k) ==
    IF Bits(x) = 0 THEN FZero
    ELSE RootShifted(x, k,
                     2 * ((8 * LimbBits - 2 - Bits(x) + BitLen(k)) \div 2))

(***************************************************************************)
(* Sequences of integers.                                                  *)
(***************************************************************************)
\* the sum of s[lo..hi], by halves
RECURSIVE SumRange(_, _, _)
SumRange(s, lo, hi) ==
    IF lo > hi THEN 0
    ELSE IF lo = hi THEN s[lo]
    ELSE SumRange(s, lo, (lo + hi) \div 2)
             + SumRange(s, ((lo + hi) \div 2) + 1, hi)

\* sum(s)
SumSeq(s) == SumRange(s, 1, Len(s))

\* Python's sorted(values) on a list of integers.
sorted(values) == SortSeq(values, LAMBDA a, b : a < b)

\* values[f] + (k - f) * (values[c] - values[f]) on floats, for a
\* non-empty list indexed from 0, with c the index after f, or f at the end
\* of the list
interpolate_from(values, k, f) ==
    LET c == IF f + 1 < Len(values) THEN f + 1 ELSE f
    IN  FAdd(FInt(values[f + 1]),
             FMul(FSub(k, FInt(f)), FInt(values[c + 1] - values[f + 1])))

\* the same with f = int(k)
interpolate_at(values, k) == interpolate_from(values, k, int(k))

\* the same with k = (len - 1) * (p / 100.0), for the percentile p in whole
\* percents
interpolate(values, p) ==
    interpolate_at(values, FMul(FInt(Len(values) - 1), FDiv(FInt(p), FInt(100))))

\* A calculate_percentile that interpolates on the list as given (no sort).
percentile_unsorted(values, p) ==
    IF values = <<>> THEN FZero ELSE interpolate(values, p)

\* A calculate_percentile that returns the lower neighbour (no interpolation).
percentile_lower(values, p) ==
    IF values = <<>> THEN FZero
    ELSE LET sorted_values == sorted(values)
             k == FMul(FInt(Len(sorted_values) - 1), FDiv(FInt(p), FInt(100)))
         IN  FInt(sorted_values[int(k) + 1])

\* calculate_percentile(values, percentile), percentile in whole percents;
\* list indices are 0-based in the code and 1-based here.
calculate_percentile(values, p) ==
    IF values = <<>> THEN FZero ELSE interpolate(sorted(values), p)

\* statistics.mean(durations), durations non-empty: the exact sum over the
\* count, as the nearest float (or the int of the same value).
mean(ds) == float(SumSeq(ds), Len(ds))

\* statistics.median(durations), durations non-empty: the middle element, or
\* the sum of the two middle elements divided by 2.
median(ds) ==
    LET s == sorted(ds)
        n == Len(s)
    IN  IF n % 2 = 1 THEN FInt(s[(n \div 2) + 1])
        ELSE float(s[n \div 2] + s[(n \div 2) + 1], 2)

\* n * n in 8 limbs, for a natural number n < 2^31
Square(n) ==
    LET limbs == <<n % Base, (n \div Base) % Base, n \div (Base * Base), 0>>
    IN  MulWide(limbs, limbs)

\* the sum of the squares of s[lo..hi] in 8 limbs, by halves
RECURSIVE SumSquares(_, _, _)
SumSquares(s, lo, hi) ==
    IF lo > hi THEN NoLimbs \o NoLimbs
    ELSE IF lo = hi THEN Square(s[lo])
    ELSE AddLong(SumSquares(s, lo, (lo + hi) \div 2),
                 SumSquares(s, ((lo + hi) \div 2) + 1, hi), 1)

\* statistics.stdev(durations) for 2 to 128 durations whose sum is below
\* 2^31: the square root of the exact sample variance
\* (n * sum(x^2) - sum(x)^2) / (n * (n - 1)), as the nearest float.  The
\* numerator is computed exactly, in 8 limbs, as statistics._ss computes it
\* on fractions.
stdev(ds) ==
    FSqrtFrac(AddLong(MulLong(SumSquares(ds, 1, Len(ds)), Len(ds)),
                      Square(SumSeq(ds)), -1),
              Len(ds) * (Len(ds) - 1))

\* All sequences over S of length at most n.
SeqsUpTo(S, n) == UNION {[1..k -> S] : k \in 0..n}


(***************************************************************************)
(* Inputs of the model.                                                    *)
(***************************************************************************)
\* test names of the runs
TestNames == {"t_build", "t_sync"}
\* durations (ms) of the timing records handed to the classifier
Durations == {120, 150}
\* durations (ms) of the timing records parse_jsonl_logs yields (it keeps a
\* record only when max_duration_ms > 0) and of the runs that are saved
LogDurations == {100, 150}
\* the values detect_platform() takes: the platform of the machine
Platforms == {"linux-x64", "darwin-arm64"}
\* DEFAULT_THRESHOLD = 1.20
DEFAULT_THRESHOLD == float(6, 5)
\* --threshold (type=float): the default 1.20 and the docstring's 1.25
Thresholds == {DEFAULT_THRESHOLD, float(5, 4)}

\* the TestTiming records a caller builds: timestamp "" and the default
\* platform ""
TestTiming(D) ==
    [test_name : TestNames, duration_ms : D, timestamp : {""}, platform : {""}]
\* datetime.now(timezone.utc).isoformat().replace("+00:00", "Z"): a reading
\* of the clock
Clock == {"2026-01-01T12:00:00.123456Z"}

(***************************************************************************)
(* JSON values.  A number is an int or a float, which json.dump and        *)
(* json.load keep apart (100 and 100.0); v counts hundredths in both.  In  *)
(* a JSON text a number is a numeral, the characters that spell it.        *)
(***************************************************************************)
\* the int n
IntNum(n) == [t |-> "num", float |-> FALSE, v |-> 100 * n]
\* the float of h hundredths
FloatNum(h) == [t |-> "num", float |-> TRUE, v |-> h]
Str(x) == [t |-> "str", s |-> x]
Null == [t |-> "null"]
Arr(elements) == [t |-> "arr", a |-> elements]
Obj(members) == [t |-> "obj", m |-> members]
\* a line of text that json.loads rejects
NotJson == [t |-> "invalid"]

\* dict.get(key, default) on a JSON object's members
get(m, key, default) == IF key \in DOMAIN m THEN m[key] ELSE default

\* Python's truth value of a JSON value
truthy(x) ==
    CASE x.t = "str" -> x.s # ""
      [] x.t = "num" -> x.v # 0
      [] x.t = "obj" -> DOMAIN x.m # {}
      [] x.t = "arr" -> x.a # <<>>
      [] OTHER -> FALSE

\* the number that the characters chars spell in a JSON text
Numeral(chars) == [t |-> "numeral", c |-> chars]

\* the character of the decimal digit d
Digit(d) == <<"0", "1", "2", "3", "4", "5", "6", "7", "8", "9">>[d + 1]

\* int.__repr__(n), n >= 0: the decimal digits of n
RECURSIVE int_repr(_)
int_repr(n) ==
    IF n < 10 THEN <<Digit(n)>>
    ELSE Append(int_repr(n \div 10), Digit(n % 10))

\* float.__repr__ of the float of h hundredths, 0 <= h: the shortest
\* decimal that reads back as the same float, which is the decimal h / 100
\* itself without a closing 0, but with one decimal at least (100.0, 147.5,
\* 35.36)
float_repr(h) ==
    int_repr(h \div 100) \o <<".">>
        \o (IF h % 10 = 0 THEN <<Digit((h \div 10) % 10)>>
            ELSE <<Digit((h \div 10) % 10), Digit(h % 10)>>)

\* the JSON text of the value x as json.dump spells it, up to the layout:
\* every number is replaced by its numeral.  The lists of a report hold
\* the entries as check_regressions built them and are left as they are.
RECURSIVE encode(_)
encode(x) ==
    CASE x.t = "num" ->
            Numeral(IF x.float THEN float_repr(x.v) ELSE int_repr(x.v \div 100))
      [] x.t = "obj" -> Obj([key \in DOMAIN x.m |-> encode(x.m[key])])
      [] OTHER -> x

\* int(s) of the digits cs
RECURSIVE int_of(_)
int_of(cs) ==
    IF cs = <<>> THEN 0
    ELSE 10 * int_of(SubSeq(cs, 1, Len(cs) - 1))
             + (CHOOSE d \in 0..9 : Digit(d) = cs[Len(cs)])

\* the number a numeral is read as.  A numeral with a point is a float,
\* float(s): the float nearest to the decimal, in hundredths, where one
\* decimal counts tenths (the texts of the model spell no more than two
\* decimals).  A numeral without a point is an int, int(s).
parse_number(cs) ==
    LET point == IF \E i \in 1..Len(cs) : cs[i] = "."
                 THEN CHOOSE i \in 1..Len(cs) : cs[i] = "."
                 ELSE 0
        decimals == SubSeq(cs, point + 1, Len(cs))
    IN  IF point = 0 THEN IntNum(int_of(cs))
        ELSE FloatNum(100 * int_of(SubSeq(cs, 1, point - 1))
                          + (IF Len(decimals) = 1 THEN 10 * int_of(decimals)
                             ELSE int_of(SubSeq(decimals, 1, 2))))

\* the value json.loads builds from a JSON text: every numeral becomes the
\* number read from it
RECURSIVE decode(_)
decode(x) ==
    CASE x.t = "numeral" -> parse_number(x.c)
      [] x.t = "obj" -> Obj([key \in DOMAIN x.m |-> decode(x.m[key])])
      [] OTHER -> x

\* the characters json.dump(x, f, indent=2) writes for the JSON text x at
\* the given depth of nesting, for the values save_baseline writes
\* (numbers, strings of ASCII letters that need no escape, objects): a
\* member of an object is on a line of its own, indented by 2 * depth
\* blanks, as "key": value, with a comma between two members
RECURSIVE json_size(_, _)
RECURSIVE members_size(_, _, _)
members_size(m, keys, depth) ==
    IF keys = {} THEN 0
    ELSE LET key == CHOOSE k \in keys : TRUE
         IN  1 + 2 * depth + (Len(key) + 2) + 2 + json_size(m[key], depth)
                 + members_size(m, keys \ {key}, depth)
json_size(x, depth) ==
    CASE x.t = "numeral" -> Len(x.c)
      [] x.t = "str" -> Len(x.s) + 2
      [] x.t = "null" -> 4
      [] x.t = "obj" ->
            IF DOMAIN x.m = {} THEN 2
            ELSE 1 + members_size(x.m, DOMAIN x.m, depth + 1)
                   + (Cardinality(DOMAIN x.m) - 1) + 1 + 2 * depth + 1

(***************************************************************************)
(* parse_jsonl_logs.  A log directory is missing or holds log files, in    *)
(* the order in which glob yields them.  A log file has a stem, held as    *)
(* its parts between the "_" (t_build_20260101_120000 is                   *)
(* <<"t", "build", "20260101", "120000">>), and lines, each a JSON value,  *)
(* a blank line or a line that json.loads rejects; it can be read or not.  *)
(* The durations of the entries are ints.                                  *)
(***************************************************************************)
\* a line of blanks
Blank == [t |-> "blank"]

NoDir == [exists |-> FALSE, files |-> <<>>]
LogDir(files) == [exists |-> TRUE, files |-> files]
LogFile(stem, lines) == [stem |-> stem, lines |-> lines, readable |-> TRUE]

\* "_".join(parts)
RECURSIVE join(_)
join(parts) ==
    IF parts = <<>> THEN ""
    ELSE IF Len(parts) = 1 THEN parts[1]
    ELSE parts[1] \o "_" \o join(Tail(parts))

\* filename.rsplit("_", 2) of the stem: the last two parts, and before them
\* what is left
rsplit(stem) ==
    IF Len(stem) <= 3 THEN stem
    ELSE <<join(SubSeq(stem, 1, Len(stem) - 2)),
           stem[Len(stem) - 1], stem[Len(stem)]>>

\* the test name of a log file: the stem without a suffix of 8 and 6
\* characters (_YYYYMMDD_HHMMSS), if it has one
name_of_parts(stem, parts) ==
    IF /\ Len(parts) >= 3
       /\ Len(parts[Len(parts)]) = 6
       /\ Len(parts[Len(parts) - 1]) = 8
    THEN join(SubSeq(parts, 1, Len(parts) - 2))
    ELSE join(stem)

\* entry.get("duration_ms") or entry.get("elapsed_ms") or 0
duration_of(entry) ==
    IF truthy(get(entry.m, "duration_ms", Null))
    THEN get(entry.m, "duration_ms", Null)
    ELSE IF truthy(get(entry.m, "elapsed_ms", Null))
    THEN get(entry.m, "elapsed_ms", Null)
    ELSE IntNum(0)

\* the body of the loop over the entries once duration is known: st is
\* [raised, test_name, max_duration_ms, timestamp]
scan_duration(entry, duration, st) ==
    \* duration > max_duration_ms, with a duration that is no number
    IF duration.t # "num" THEN [st EXCEPT !.raised = "TypeError"]
    ELSE [raised |-> "none",
          test_name |->
              IF /\ "test_name" \in DOMAIN entry.m
                 /\ truthy(get(entry.m, "duration_ms", Null))
              THEN entry.m.test_name.s
              ELSE st.test_name,
          max_duration_ms |->
              IF duration.v > 100 * st.max_duration_ms
              THEN duration.v \div 100
              ELSE st.max_duration_ms,
          timestamp |->
              IF duration.v > 100 * st.max_duration_ms
              THEN get(entry.m, "timestamp", Str("")).s
              ELSE st.timestamp]

\* for entry in entries
RECURSIVE scan_entries(_, _)
scan_entries(entries, st) ==
    IF entries = <<>> \/ st.raised # "none" THEN st
    \* entry.get on a value that is no object
    ELSE IF Head(entries).t # "obj" THEN [st EXCEPT !.raised = "AttributeError"]
    ELSE scan_entries(Tail(entries),
                      scan_duration(Head(entries), duration_of(Head(entries)),
                                    st))

\* what one log file adds to timings, after the loop over its entries
timing_of(st, plat) ==
    IF st.raised # "none" THEN [raised |-> st.raised, value |-> <<>>]
    ELSE IF st.max_duration_ms > 0
    THEN [raised |-> "none",
          value |-> <<[test_name |-> st.test_name,
                       duration_ms |-> st.max_duration_ms,
                       timestamp |-> st.timestamp,
                       platform |-> plat]>>]
    ELSE [raised |-> "none", value |-> <<>>]

\* the body of the loop over the log files: [raised, value], value the
\* timings the file adds.  A file that cannot be read or has a line that is
\* no JSON is skipped with a warning; every line is parsed before the first
\* entry is looked at.
parse_file(file, plat) ==
    IF \/ ~file.readable
       \/ \E i \in 1..Len(file.lines) : file.lines[i] = NotJson
    THEN [raised |-> "none", value |-> <<>>]
    ELSE timing_of(
             scan_entries(SelectSeq(file.lines, LAMBDA line : line # Blank),
                          [raised |-> "none",
                           test_name |-> name_of_parts(file.stem,
                                                       rsplit(file.stem)),
                           max_duration_ms |-> 0,
                           timestamp |-> ""]),
             plat)

\* timings after the log file that adds what added holds
parse_next(parsed, added) ==
    IF added.raised # "none" THEN added
    ELSE [raised |-> "none", value |-> parsed.value \o added.value]

\* for log_file in log_dir.glob("*.jsonl"), from the file at position i
RECURSIVE parse_from(_, _, _, _)
parse_from(files, i, plat, parsed) ==
    IF parsed.raised # "none" \/ i > Len(files) THEN parsed
    ELSE parse_from(files, i + 1, plat,
                    parse_next(parsed, parse_file(files[i], plat)))

\* parse_jsonl_logs(log_dir): [raised, value]
parse_jsonl_logs(log_dir, plat) ==
    IF ~log_dir.exists THEN [raised |-> "none", value |-> <<>>]
    ELSE parse_from(log_dir.files, 1, plat, [raised |-> "none", value |-> <<>>])

(***************************************************************************)
(* Aggregator.  A dict[str, list[int]] in insertion order is a sequence    *)
(* of [test_name, durations] with distinct names.                          *)
(***************************************************************************)
\* An aggregator that keeps only the latest duration of each test.
RECURSIVE aggregate_latest(_)
aggregate_latest(ts) ==
    IF ts = <<>> THEN <<>>
    ELSE LET agg == aggregate_latest(SubSeq(ts, 1, Len(ts) - 1))
             last == ts[Len(ts)]
         IN  IF \E i \in 1..Len(agg) : agg[i].test_name = last.test_name
             THEN [i \in 1..Len(agg) |->
                     IF agg[i].test_name = last.test_name
                     THEN [agg[i] EXCEPT !.durations = <<last.duration_ms>>]
                     ELSE agg[i]]
             ELSE Append(agg, [test_name |-> last.test_name,
                               durations |-> <<last.duration_ms>>])

\* the positions in ts of the first record of each test, in order
first_records(ts) ==
    SelectSeq([i \in 1..Len(ts) |-> i],
              LAMBDA i : \A j \in 1..(i - 1) : ts[j].test_name # ts[i].test_name)

\* the durations of the records of the test name, in the order of the records
durations_of(ts, name) ==
    LET records == SelectSeq(ts, LAMBDA timing : timing.test_name = name)
    IN  [i \in 1..Len(records) |-> records[i].duration_ms]

\* aggregate_timings(timings): the dict that
\*   for timing in timings:
\*       aggregated[timing.test_name].append(timing.duration_ms)
\* builds.  A key is inserted with the first record of its test, and every
\* record of the test appends to its list.
aggregate_timings(ts) ==
    LET firsts == first_records(ts)
    IN  [k \in 1..Len(firsts) |->
            [test_name |-> ts[firsts[k]].test_name,
             durations |-> durations_of(ts, ts[firsts[k]].test_name)]]

(***************************************************************************)
(* The baseline file.  Its text is a sequence of pieces:                   *)
(*   head   {"version": .., "generated_at": .., "platform": ..,            *)
(*           "threshold": .., "tests": {                                   *)
(*   test   "<name>": <value>                                              *)
(*   tail   }} and the "\n" that f.write("\n") adds                        *)
(*   json   a complete JSON text of another shape                          *)
(*   rest   what is left of an older text behind a shorter text written    *)
(*          over it: the older text without its first bytes                *)
(* The values in the pieces are JSON texts: numbers are numerals.          *)
(***************************************************************************)
\* the JSON number of a float that has 2 decimals at most
json_float(x) == FloatNum(round(x, 100))

HeadChunk(plat, now) ==
    [k |-> "head", version |-> "1.0", generated_at |-> now, platform |-> plat,
     threshold |-> encode(json_float(DEFAULT_THRESHOLD))]
\* "<name>": the text of value
TestChunk(name, value) ==
    [k |-> "test", name |-> name, value |-> encode(value)]
TailChunk == [k |-> "tail"]
\* the text of value
JsonChunk(value) == [k |-> "json", value |-> encode(value)]
\* the text `of` without its first `skip` bytes
RestChunk(of, skip) == [k |-> "rest", of |-> of, skip |-> skip]

NoFile == [exists |-> FALSE, text |-> <<>>]
File(text) == [exists |-> TRUE, text |-> text]

\* json.dump(data, f, indent=2) and f.write("\n"): data = {"version",
\* "generated_at", "platform", "threshold", "tests"}, tests in insertion
\* order.
json_dump(data) ==
    <<[k |-> "head", version |-> data.version,
       generated_at |-> data.generated_at, platform |-> data.platform,
       threshold |-> encode(json_float(data.threshold))]>>
    \o [i \in 1..Len(data.tests) |->
            TestChunk(data.tests[i].name, data.tests[i].value)]
    \o <<TailChunk>>

\* the members of the "tests" object the chunks cs spell: a repeated name
\* keeps its last value
tests_of(cs) ==
    [name \in {cs[i].name : i \in 1..Len(cs)} |->
        cs[CHOOSE i \in 1..Len(cs) :
              /\ cs[i].name = name
              /\ \A j \in (i + 1)..Len(cs) : cs[j].name # name].value]

\* the JSON text that the pieces of a text without a rest spell, when they
\* spell one: [raised, value]
json_text(text) ==
    IF Len(text) = 1 /\ text[1].k = "json"
    THEN [raised |-> "none", value |-> text[1].value]
    ELSE IF /\ Len(text) >= 2
            /\ text[1].k = "head"
            /\ text[Len(text)].k = "tail"
            /\ \A i \in 2..(Len(text) - 1) : text[i].k = "test"
    THEN [raised |-> "none",
          value |-> Obj([version |-> Str(text[1].version),
                         generated_at |-> Str(text[1].generated_at),
                         platform |-> Str(text[1].platform),
                         threshold |-> text[1].threshold,
                         tests |-> Obj(tests_of(SubSeq(text, 2, Len(text) - 1)))])]
    ELSE [raised |-> "JSONDecodeError", value |-> Null]

\* json.loads of a text without a rest: [raised, value], value the JSON
\* value read from the text
json_loads(text) ==
    [raised |-> json_text(text).raised, value |-> decode(json_text(text).value)]

\* the bytes of a text that save_baseline wrote: those of the document, the
\* "\n" after it, and those of the rest behind it
RECURSIVE bytes(_)
bytes(text) ==
    IF text = <<>> THEN 0
    ELSE IF text[Len(text)].k = "rest"
    THEN bytes(SubSeq(text, 1, Len(text) - 1))
             + (bytes(text[Len(text)].of) - text[Len(text)].skip)
    ELSE json_size(json_text(text).value, 0) + 1

\* json.load(f): [raised, value].  Behind a complete document only blanks
\* may follow: a rest that is more than the last byte of the text it comes
\* from, the "\n" behind the closing brace, is "Extra data".
json_load(text) ==
    IF text # <<>> /\ text[Len(text)].k = "rest"
    THEN IF bytes(text[Len(text)].of) - text[Len(text)].skip = 1
         THEN json_loads(SubSeq(text, 1, Len(text) - 1))
         ELSE [raised |-> "JSONDecodeError", value |-> Null]
    ELSE json_loads(text)

(***************************************************************************)
(* Baseline store.                                                         *)
(***************************************************************************)
\* round(mean(durations), 2): statistics.mean of ints is an int when the
\* mean is whole, and round leaves an int as it is
mean_ms(ds) ==
    IF SumSeq(ds) % Len(ds) = 0 THEN IntNum(SumSeq(ds) \div Len(ds))
    ELSE FloatNum(round(mean(ds), 100))

\* round(median(durations), 2): the middle element of an odd number of
\* ints is an int
median_ms(ds) ==
    IF Len(ds) % 2 = 1 THEN IntNum(sorted(ds)[(Len(ds) \div 2) + 1])
    ELSE FloatNum(round(median(ds), 100))

\* the entry save_baseline writes for one test.  durations is never empty
\* (the aggregator creates a list only when it appends to it), and a list
\* shorter than MIN_SAMPLES_FOR_BASELINE is used as it is.
baseline_entry(ds, plat, now) ==
    Obj([mean_ms |-> mean_ms(ds),
         median_ms |-> median_ms(ds),
         p95_ms |-> FloatNum(round(calculate_percentile(ds, OUTLIER_PERCENTILE),
                                   100)),
         stddev_ms |-> IF Len(ds) > 1 THEN FloatNum(round(stdev(ds), 100))
                       ELSE IntNum(0),
         sample_count |-> IntNum(Len(ds)),
         last_updated |-> Str(now),
         platform |-> Str(plat)])

\* the document save_baseline builds from the timings, now the reading of
\* the clock
baseline_document(ts, plat, now) ==
    LET aggregated == aggregate_timings(ts)
    IN  [version |-> "1.0",
         generated_at |-> now,
         platform |-> plat,
         threshold |-> DEFAULT_THRESHOLD,
         tests |-> [i \in 1..Len(aggregated) |->
                      [name |-> aggregated[i].test_name,
                       value |-> baseline_entry(aggregated[i].durations, plat,
                                                now)]]]

\* A save_baseline that reads the old tests and writes them back under the
\* new ones (a merge).
save_baseline_merge(old, ts, plat, now) ==
    LET new == json_dump(baseline_document(ts, plat, now))
        kept == IF old.exists /\ json_load(old.text).raised = "none"
                   /\ Len(old.text) >= 2
                THEN SelectSeq(SubSeq(old.text, 2, Len(old.text) - 1),
                               LAMBDA c : c.k = "test")
                ELSE <<>>
    IN  File(<<new[1]>> \o kept \o SubSeq(new, 2, Len(new)))

\* save_baseline(baseline_file, timings): the file after the call.
\* open(baseline_file, "w") truncates; the old content is never read.
save_baseline(old, ts, plat, now) ==
    File(json_dump(baseline_document(ts, plat, now)))

(***************************************************************************)
(* save_baseline step by step, as the file system sees it.  The with-block *)
(* opens the file for writing, which empties it and gives the file object  *)
(* an offset of its own, starting at 0; json.dump and f.write fill the     *)
(* file object's buffer, and the end of the with-block closes the file,    *)
(* which writes the buffer to the file at the object's offset.  A text     *)
(* that fits the buffer is written by that one write.                      *)
(***************************************************************************)
\* io.DEFAULT_BUFFER_SIZE, the bytes the buffer of open(baseline_file, "w")
\* holds
DEFAULT_BUFFER_SIZE == 8192

\* the invocations of main --update-baseline that run at the same time
Invocations == {"job_a", "job_b"}

\* open(baseline_file, "w"): the file exists and is empty
open_w(file) == File(<<>>)

\* the text stays in the buffer until the file is closed, and is written by
\* one write then.  (A longer text is written in several writes, cut at
\* byte counts near the buffer's size; no action below writes one.)
fits_buffer(text) == bytes(text) <= DEFAULT_BUFFER_SIZE

\* write(fd, seg) with the descriptor's offset at 0, where open left it: the
\* text of the file afterwards.  The bytes of the old text beyond the end
\* of seg stay.
write_at(text, seg) ==
    IF bytes(seg) < bytes(text) THEN seg \o <<RestChunk(text, bytes(seg))>>
    ELSE seg

\* TestBaseline(test_name=name, mean_ms=values.get("mean_ms", 0), ...)
TestBaseline(name, values) ==
    [test_name |-> name,
     mean_ms |-> get(values, "mean_ms", IntNum(0)),
     median_ms |-> get(values, "median_ms", IntNum(0)),
     p95_ms |-> get(values, "p95_ms", IntNum(0)),
     stddev_ms |-> get(values, "stddev_ms", IntNum(0)),
     sample_count |-> get(values, "sample_count", IntNum(0)),
     last_updated |-> get(values, "last_updated", Str("")),
     platform |-> get(values, "platform", Str(""))]

\* load_baseline(baseline_file): [raised, value].  Only JSONDecodeError and
\* IOError are caught; a dict is a function from names, {} is <<>>.
load_baseline(file) ==
    IF ~file.exists THEN [raised |-> "none", value |-> <<>>]
    ELSE LET loaded == json_load(file.text)
         IN  IF loaded.raised = "JSONDecodeError"
             THEN [raised |-> "none", value |-> <<>>]
             ELSE IF loaded.raised # "none"
             THEN [raised |-> loaded.raised, value |-> <<>>]
             \* data.get("tests", {})
             ELSE IF loaded.value.t # "obj"
             THEN [raised |-> "AttributeError", value |-> <<>>]
             ELSE LET tests == get(loaded.value.m, "tests", Obj(<<>>))
                  IN  \* .items()
                      IF tests.t # "obj"
                      THEN [raised |-> "AttributeError", value |-> <<>>]
                      \* values.get(...)
                      ELSE IF \E nm \in DOMAIN tests.m : tests.m[nm].t # "obj"
                      THEN [raised |-> "AttributeError", value |-> <<>>]
                      ELSE [raised |-> "none",
                            value |-> [nm \in DOMAIN tests.m |->
                                         TestBaseline(nm, tests.m[nm].m)]]

(***************************************************************************)
(* Regression classifier.                                                  *)
(***************************************************************************)
\* RegressionReport()
RegressionReport ==
    [regressions |-> <<>>, improvements |-> <<>>, new_tests |-> <<>>,
     total_tests |-> 0, passed |-> 0, failed |-> 0]

\* "test_name in baselines"
has_baseline(bl, name) == name \in DOMAIN bl

\* current_p95 / baseline.p95_ms, baseline.p95_ms a number of hundredths
ratio_of(current_p95, p95_ms) == FDiv(current_p95, float(p95_ms.v, 100))

\* ratio > threshold
above_threshold(ratio, threshold) == FLT(threshold, ratio)

\* ratio < (1 / threshold)
below_inverse(ratio, threshold) == FLT(ratio, FDiv(FInt(1), threshold))

\* the entry appended to report.regressions
regression_entry(name, baseline, current_p95, ratio, threshold) ==
    [test_name |-> name,
     baseline_p95_ms |-> baseline.p95_ms.v,
     current_p95_ms |-> round(current_p95, 100),
     ratio |-> round(ratio, 100),
     threshold |-> threshold,
     regression_pct |-> round(FMul(FSub(ratio, FInt(1)), FInt(100)), 10)]

\* the entry appended to report.improvements
improvement_entry(name, baseline, current_p95, ratio) ==
    [test_name |-> name,
     baseline_p95_ms |-> baseline.p95_ms.v,
     current_p95_ms |-> round(current_p95, 100),
     ratio |-> round(ratio, 100),
     improvement_pct |-> round(FMul(FSub(FInt(1), ratio), FInt(100)), 10)]

\* f"platform mismatch (baseline: {baseline.platform}, current: {platform})"
mismatch_reason(baseline_platform, plat) ==
    "platform mismatch (baseline: " \o baseline_platform
        \o ", current: " \o plat \o ")"

\* A loop body that compares across platforms (the platform check left out).
classify_ignoring_platform(rep, name, ds, bl, threshold, plat) ==
    LET current_p95 == calculate_percentile(ds, OUTLIER_PERCENTILE)
        ratio == ratio_of(current_p95, bl[name].p95_ms)
    IN  IF ~has_baseline(bl, name)
        THEN [raised |-> "none",
              report |-> [rep EXCEPT !.new_tests = Append(@,
                  [test_name |-> name,
                   current_p95_ms |-> round(current_p95, 100),
                   current_mean_ms |-> round(mean(ds), 100),
                   samples |-> Len(ds)])]]
        ELSE IF bl[name].p95_ms.t # "num"
        THEN [raised |-> "TypeError", report |-> rep]
        ELSE IF bl[name].p95_ms.v > 0 /\ above_threshold(ratio, threshold)
        THEN [raised |-> "none",
              report |-> [rep EXCEPT
                  !.failed = @ + 1,
                  !.regressions = Append(@,
                      regression_entry(name, bl[name], current_p95, ratio,
                                       threshold))]]
        ELSE [raised |-> "none", report |-> [rep EXCEPT !.passed = @ + 1]]

\* A loop body whose improvement band mirrors the regression band
\* arithmetically (ratio < 2 - threshold instead of ratio < 1 / threshold).
classify_arithmetic_band(rep, name, ds, bl, threshold, plat) ==
    LET current_p95 == calculate_percentile(ds, OUTLIER_PERCENTILE)
        ratio == ratio_of(current_p95, bl[name].p95_ms)
    IN  IF ~has_baseline(bl, name)
           \/ (truthy(bl[name].platform) /\ bl[name].platform # Str(plat))
           \/ bl[name].p95_ms.t # "num"
           \/ bl[name].p95_ms.v <= 0
        THEN [raised |-> "none",
              report |-> [rep EXCEPT !.new_tests = Append(@,
                  [test_name |-> name,
                   current_p95_ms |-> round(current_p95, 100)])]]
        ELSE IF above_threshold(ratio, threshold)
        THEN [raised |-> "none",
              report |-> [rep EXCEPT
                  !.failed = @ + 1,
                  !.regressions = Append(@,
                      regression_entry(name, bl[name], current_p95, ratio,
                                       threshold))]]
        ELSE IF FLT(ratio, FSub(FInt(2), threshold))
        THEN [raised |-> "none",
              report |-> [rep EXCEPT
                  !.passed = @ + 1,
                  !.improvements = Append(@,
                      improvement_entry(name, bl[name], current_p95, ratio))]]
        ELSE [raised |-> "none", report |-> [rep EXCEPT !.passed = @ + 1]]

\* A loop body without the `baseline.p95_ms > 0` guard: the ratio is computed
\* for every baseline on a matching platform, and the division by a p95_ms
\* of 0 raises.
classify_unguarded_ratio(rep, name, ds, bl, threshold, plat) ==
    LET current_p95 == calculate_percentile(ds, OUTLIER_PERCENTILE)
        ratio == ratio_of(current_p95, bl[name].p95_ms)
    IN  IF ~has_baseline(bl, name)
           \/ (truthy(bl[name].platform) /\ bl[name].platform # Str(plat))
        THEN [raised |-> "none",
              report |-> [rep EXCEPT !.new_tests = Append(@,
                  [test_name |-> name,
                   current_p95_ms |-> round(current_p95, 100)])]]
        ELSE IF bl[name].p95_ms.t # "num"
        THEN [raised |-> "TypeError", report |-> rep]
        ELSE IF bl[name].p95_ms.v = 0
        THEN [raised |-> "ZeroDivisionError", report |-> rep]
        ELSE IF above_threshold(ratio, threshold)
        THEN [raised |-> "none",
              report |-> [rep EXCEPT
                  !.failed = @ + 1,
                  !.regressions = Append(@,
                      regression_entry(name, bl[name], current_p95, ratio,
                                       threshold))]]
        ELSE IF below_inverse(ratio, threshold)
        THEN [raised |-> "none",
              report |-> [rep EXCEPT
                  !.passed = @ + 1,
                  !.improvements = Append(@,
                      improvement_entry(name, bl[name], current_p95, ratio))]]
        ELSE [raised |-> "none", report |-> [rep EXCEPT !.passed = @ + 1]]

\* The comparison of one pass of the loop of check_regressions, after
\* `ratio = current_p95 / baseline.p95_ms`: [raised, report].
compare(rep, name, baseline, current_p95, ratio, threshold) ==
    IF above_threshold(ratio, threshold)
    THEN [raised |-> "none",
          report |-> [rep EXCEPT
              !.failed = @ + 1,
              !.regressions = Append(@,
                  regression_entry(name, baseline, current_p95, ratio,
                                   threshold))]]
    \* ratio < 1 / threshold
    ELSE IF below_inverse(ratio, threshold)
    THEN [raised |-> "none",
          report |-> [rep EXCEPT
              !.passed = @ + 1,
              !.improvements = Append(@,
                  improvement_entry(name, baseline, current_p95, ratio))]]
    ELSE [raised |-> "none", report |-> [rep EXCEPT !.passed = @ + 1]]

\* One pass of the loop of check_regressions after
\* `current_p95 = calculate_percentile(durations, OUTLIER_PERCENTILE)`, for
\* the test `name` with the durations ds: [raised, report].
classify_measured(rep, name, ds, bl, threshold, plat, current_p95) ==
    LET current_mean == mean(ds)
    IN  IF ~has_baseline(bl, name)
        THEN [raised |-> "none",
              report |-> [rep EXCEPT !.new_tests = Append(@,
                  [test_name |-> name,
                   current_p95_ms |-> round(current_p95, 100),
                   current_mean_ms |-> round(current_mean, 100),
                   samples |-> Len(ds)])]]
        ELSE LET baseline == bl[name]
             IN  IF truthy(baseline.platform) /\ baseline.platform # Str(plat)
                 THEN [raised |-> "none",
                       report |-> [rep EXCEPT !.new_tests = Append(@,
                           [test_name |-> name,
                            current_p95_ms |->
                                round(current_p95, 100),
                            reason |->
                                mismatch_reason(baseline.platform.s, plat)])]]
                 \* baseline.p95_ms > 0 on a str or None
                 ELSE IF baseline.p95_ms.t # "num"
                 THEN [raised |-> "TypeError", report |-> rep]
                 ELSE IF baseline.p95_ms.v > 0
                 THEN compare(rep, name, baseline, current_p95,
                              ratio_of(current_p95, baseline.p95_ms),
                              threshold)
                 ELSE [raised |-> "none",
                       report |-> [rep EXCEPT !.new_tests = Append(@,
                           [test_name |-> name,
                            current_p95_ms |->
                                round(current_p95, 100),
                            reason |-> "no baseline p95"])]]

\* One pass of the loop of check_regressions, for the test `name` with the
\* durations ds: [raised, report].  threshold is a positive float.
classify(rep, name, ds, bl, threshold, plat) ==
    classify_measured(rep, name, ds, bl, threshold, plat,
                      calculate_percentile(ds, OUTLIER_PERCENTILE))

\* the loop of check_regressions over the items lo..hi of
\* aggregated.items(), one half after the other, from st = [raised, report];
\* an exception ends it
RECURSIVE classify_range(_, _, _, _, _, _, _)
classify_range(st, aggregated, lo, hi, bl, threshold, plat) ==
    IF lo > hi \/ st.raised # "none" THEN st
    ELSE IF lo = hi
    THEN classify(st.report, aggregated[lo].test_name,
                  aggregated[lo].durations, bl, threshold, plat)
    ELSE classify_range(
             classify_range(st, aggregated, lo, (lo + hi) \div 2,
                            bl, threshold, plat),
             aggregated, ((lo + hi) \div 2) + 1, hi, bl, threshold, plat)

\* the loop of check_regressions over aggregated.items()
classify_all(rep, aggregated, bl, threshold, plat) ==
    classify_range([raised |-> "none", report |-> rep], aggregated,
                   1, Len(aggregated), bl, threshold, plat)

\* A check_regressions that counts every test that did not fail as passed.
check_regressions_new_passes(ts, bl, threshold, plat) ==
    LET aggregated == aggregate_timings(ts)
        r == classify_all([RegressionReport EXCEPT !.total_tests = Len(aggregated)],
                          aggregated, bl, threshold, plat)
    IN  [r EXCEPT !.report.passed = r.report.total_tests - r.report.failed]

\* A check_regressions that counts timing records instead of test names.
check_regressions_total_records(ts, bl, threshold, plat) ==
    classify_all([RegressionReport EXCEPT !.total_tests = Len(ts)],
                 aggregate_timings(ts), bl, threshold, plat)

\* check_regressions(timings, baselines, threshold): [raised, report]
check_regressions(ts, bl, threshold, plat) ==
    LET aggregated == aggregate_timings(ts)
    IN  classify_all([RegressionReport EXCEPT !.total_tests = Len(aggregated)],
                     aggregated, bl, threshold, plat)

(***************************************************************************)
(* The JSON report and main.  The script runs sys.exit(main()), and the    *)
(* result of main is [exit_code, raised, timings, file, baselines,         *)
(* report]: exit_code the exit status of the process, which is the value   *)
(* main returns, or 1 when an exception leaves main (the interpreter       *)
(* prints the traceback and exits with 1); file the baseline file          *)
(* afterwards.  --baseline is left at its default, BASELINE_FILE.          *)
(***************************************************************************)
BASELINE_FILE == ".baselines/test_performance_baseline.json"

\* args.json_output when --json-output is not given
None == "None"

\* write_json_report(report, output_file): the file afterwards.  The
\* entries of the three lists are held as check_regressions built them.
write_json_report(rep, output_file, plat, now) ==
    File(<<JsonChunk(Obj(
        [generated_at |-> Str(now),
         platform |-> Str(plat),
         summary |-> Obj([total_tests |-> IntNum(rep.total_tests),
                          passed |-> IntNum(rep.passed),
                          failed |-> IntNum(rep.failed),
                          new_tests |-> IntNum(Len(rep.new_tests))]),
         regressions |-> Arr(rep.regressions),
         improvements |-> Arr(rep.improvements),
         new_tests |-> Arr(rep.new_tests)]))>>)

\* exit_code while no process has ended
NoExit == -1

\* the exit status of a process that an uncaught exception ends
UncaughtStatus == 1

\* sys.exit(main()) when main returns code (an exception leaves it when exc
\* is not "none", and code is UncaughtStatus)
main_result(code, exc, ts, file, bl, rep) ==
    [exit_code |-> code, raised |-> exc, timings |-> ts, file |-> file,
     baselines |-> bl, report |-> rep]

\* the baseline file after "if args.json_output: write_json_report(...)"
reported(a, rep, file, plat, now) ==
    IF a.json_output = BASELINE_FILE
    THEN write_json_report(rep, file, plat, now)
    ELSE file

\* main after check_regressions has returned or raised
main_checked(a, ts, file, plat, now, bl, checked) ==
    IF checked.raised # "none"
    THEN main_result(UncaughtStatus, checked.raised, ts, file, bl, RegressionReport)
    \* return 1 if report.failed > 0 else 0
    ELSE main_result(IF checked.report.failed > 0 THEN 1 ELSE 0, "none", ts,
                     reported(a, checked.report, file, plat, now), bl,
                     checked.report)

\* main after load_baseline has returned or raised
main_loaded(a, ts, file, plat, now, loaded) ==
    IF loaded.raised # "none"
    THEN main_result(UncaughtStatus, loaded.raised, ts, file, <<>>,
                     RegressionReport)
    \* if not baselines: return 2 in CI, else 0
    ELSE IF DOMAIN loaded.value = {}
    THEN main_result(IF a.ci THEN 2 ELSE 0, "none", ts, file, loaded.value,
                     RegressionReport)
    ELSE main_checked(a, ts, file, plat, now, loaded.value,
                      check_regressions(ts, loaded.value, a.threshold, plat))

\* main after parse_jsonl_logs has returned or raised
main_parsed(a, parsed, file, plat, now) ==
    IF parsed.raised # "none"
    THEN main_result(UncaughtStatus, parsed.raised, <<>>, file, <<>>,
                     RegressionReport)
    \* if not timings: return 2 in CI, else 0
    ELSE IF parsed.value = <<>>
    THEN main_result(IF a.ci THEN 2 ELSE 0, "none", <<>>, file, <<>>,
                     RegressionReport)
    \* update baseline mode
    ELSE IF a.update_baseline
    THEN main_result(0, "none", parsed.value,
                     save_baseline(file, parsed.value, plat, now), <<>>,
                     RegressionReport)
    ELSE main_loaded(a, parsed.value, file, plat, now, load_baseline(file))

\* main, with the parsed arguments a, the log directory args.log_dir, the
\* baseline file, the platform and the reading of the clock
main(a, log_dir, file, plat, now) ==
    main_parsed(a, parse_jsonl_logs(log_dir, plat), file, plat, now)

(***************************************************************************)
(* The values the actions draw.                                            *)
(***************************************************************************)
\* lists of timing records of at most MaxTimings records
TimingLists(D) == SeqsUpTo(TestTiming(D), MaxTimings)

\* argparse's result: --ci and --update-baseline given or not, --threshold
\* left at its default, --json-output not given, naming the baseline file
\* or naming another file
Args ==
    [ci : BOOLEAN, update_baseline : BOOLEAN, threshold : {DEFAULT_THRESHOLD},
     json_output : {None, BASELINE_FILE, "report.json"}]
DefaultArgs ==
    [ci |-> FALSE, update_baseline |-> FALSE, threshold |-> DEFAULT_THRESHOLD,
     json_output |-> None]

\* log files that yield a timing: a run of t_build, named by the file
\* without its time stamp; a run of t_build, named by an entry; a run of
\* t_sync, named by the file
LogFiles ==
    {LogFile(<<"t", "build", "20260101", "120000">>,
             <<Obj([duration_ms |-> IntNum(100)])>>),
     LogFile(<<"run", "1", "2">>,
             <<Obj([event |-> Str("start")]),
               Obj([test_name |-> Str("t_build"), duration_ms |-> IntNum(150),
                    timestamp |-> Str("2026-01-02T12:00:00Z")])>>),
     LogFile(<<"t", "sync">>,
             <<Obj([elapsed_ms |-> IntNum(150)]), Blank,
               Obj([duration_ms |-> IntNum(0), elapsed_ms |-> IntNum(100)])>>)}

\* log files that yield none: a duration that is a string; an entry that is
\* no object; a line that is no JSON; a file that cannot be read; a file
\* without a duration
OtherLogFiles ==
    {LogFile(<<"t", "sync", "20260101", "120000">>,
             <<Obj([duration_ms |-> Str("100")])>>),
     LogFile(<<"t", "sync", "20260102", "120000">>,
             <<Arr(<<IntNum(1)>>)>>),
     LogFile(<<"t", "build", "20260103", "120000">>,
             <<Obj([duration_ms |-> IntNum(150)]), NotJson>>),
     [LogFile(<<"t", "build", "20260104", "120000">>,
              <<Obj([duration_ms |-> IntNum(150)])>>)
         EXCEPT !.readable = FALSE],
     LogFile(<<"t", "build">>, <<Obj([event |-> Str("start")])>>)}

\* log directories: missing; at most MaxTimings of the files that yield a
\* timing, in any order; one of the other files, alone or behind a file
\* that yields a timing
LogDirs ==
    {NoDir}
    \cup {LogDir(files) : files \in
             {fs \in SeqsUpTo(LogFiles, MaxTimings) :
                 \A i, j \in 1..Len(fs) : fs[i] = fs[j] => i = j}}
    \cup {LogDir(<<file>>) : file \in OtherLogFiles}
    \cup {LogDir(<<first, file>>) :
               first \in {f \in LogFiles :
                              f.stem = <<"t", "build", "20260101", "120000">>},
               file \in OtherLogFiles}

\* the TestBaseline values a caller hands to check_regressions: p95_ms 0,
\* 100.0 or 150.0, platform unrecorded or one of two
CallerBaselines(name) ==
    {[test_name |-> name, mean_ms |-> FloatNum(p), median_ms |-> FloatNum(p),
      p95_ms |-> FloatNum(p), stddev_ms |-> FloatNum(0),
      sample_count |-> IntNum(1), last_updated |-> Str(""),
      platform |-> Str(plat)] :
        p \in {0, 10000, 15000}, plat \in {""} \cup Platforms}

\* the dict[str, TestBaseline] a caller hands to check_regressions
CallerBaselineMaps ==
    UNION {{bl \in [S -> UNION {CallerBaselines(nm) : nm \in S}] :
               \A nm \in S : bl[nm].test_name = nm} : S \in SUBSET TestNames}

\* the values of one test in a baseline file written by something else than
\* save_baseline: objects with keys left out or of another type, and a value
\* that is no object
ExternalValues ==
    {Obj([p95_ms |-> FloatNum(10000), platform |-> Str("linux-x64")]),
     Obj([p95_ms |-> IntNum(120)]),
     Obj([p95_ms |-> IntNum(0), platform |-> Str("darwin-arm64")]),
     Obj([platform |-> Null]),
     Obj([p95_ms |-> Str("fast")]),
     Obj([p95_ms |-> Null, platform |-> Str("linux-x64")]),
     FloatNum(10000)}

\* the states of a baseline file that the program did not write: missing,
\* empty, cut short, JSON of another shape, hand-written tests
ExternalFiles ==
    {NoFile,
     File(<<>>),
     File(<<HeadChunk("linux-x64", "2026-01-01T00:00:00Z"),
            TestChunk("t_build", Obj([p95_ms |-> FloatNum(10000)]))>>),
     File(<<JsonChunk(Arr(<<>>))>>),
     File(<<JsonChunk(Null)>>),
     File(<<JsonChunk(Obj(<<>>))>>),
     File(<<JsonChunk(Obj([tests |-> Arr(<<>>)]))>>),
     File(<<JsonChunk(Obj([tests |-> Null]))>>),
     File(<<HeadChunk("linux-x64", "2026-01-01T00:00:00Z"),
            TestChunk("t_build", Obj([p95_ms |-> FloatNum(10000)])),
            TestChunk("t_sync", Obj([p95_ms |-> FloatNum(15000)])),
            TestChunk("t_build", Obj([p95_ms |-> FloatNum(12000)])),
            TailChunk>>)}
    \cup {File(<<HeadChunk("linux-x64", "2026-01-01T00:00:00Z"),
                 TestChunk("t_build", v), TailChunk>>) :
            v \in ExternalValues}

(***************************************************************************)
(* Actions.  A process starts idle, makes calls and exits; only the        *)
(* baseline file outlives it.                                              *)
(***************************************************************************)
pct_vars == <<durations, percentile, pct_result>>
proc_vars == <<timings, args, baselines, report, exit_code, raised>>
race_vars == <<writers, last_write>>

\* calculate_percentile(durations, percentile) is called
CalculatePercentile ==
    /\ pc = "pct_ready"
    /\ pct_result' = calculate_percentile(durations, percentile)
    /\ pc' = "pct_done"
    /\ UNCHANGED <<durations, percentile, baseline_file, platform>>
    /\ UNCHANGED proc_vars
    /\ UNCHANGED race_vars

\* parse_jsonl_logs(log_dir) is called
ParseJsonlLogs ==
    /\ pc = "idle"
    /\ \E log_dir \in LogDirs :
        \E parsed \in {parse_jsonl_logs(log_dir, platform)} :
            /\ timings' = parsed.value
            /\ raised' = parsed.raised
    /\ pc' = "parsed"
    /\ UNCHANGED <<baseline_file, platform, args, baselines, report, exit_code>>
    /\ UNCHANGED pct_vars
    /\ UNCHANGED race_vars

\* save_baseline(path, ts) is called
SaveBaseline ==
    /\ pc \in {"idle", "loaded"}
    /\ raised = "none"
    /\ \E ts \in TimingLists(LogDurations), now \in Clock :
        /\ baseline_file' = save_baseline(baseline_file, ts, platform, now)
        /\ timings' = ts
    /\ pc' = "saved"
    /\ UNCHANGED <<platform, args, baselines, report, exit_code, raised>>
    /\ UNCHANGED pct_vars
    /\ UNCHANGED race_vars

\* load_baseline(path) is called
LoadBaseline ==
    /\ pc \in {"idle", "saved"}
    /\ \E loaded \in {load_baseline(baseline_file)} :
           /\ baselines' = loaded.value
           /\ raised' = loaded.raised
    /\ pc' = IF pc = "saved" THEN "reloaded" ELSE "loaded"
    /\ UNCHANGED <<baseline_file, timings, platform, args, report, exit_code>>
    /\ UNCHANGED pct_vars
    /\ UNCHANGED race_vars

\* check_regressions(ts, baselines, threshold) is called with the loaded
\* baselines and a list of timings out of TS
CheckRegressions(TS) ==
    /\ pc = "loaded"
    /\ raised = "none"
    /\ \E ts \in TS, threshold \in Thresholds :
        \E checked \in {check_regressions(ts, baselines, threshold, platform)} :
            /\ timings' = ts
            /\ args' = [args EXCEPT !.threshold = threshold]
            /\ report' = checked.report
            /\ raised' = checked.raised
    /\ pc' = "checked"
    /\ UNCHANGED <<baseline_file, platform, baselines, exit_code>>
    /\ UNCHANGED pct_vars
    /\ UNCHANGED race_vars

\* the script runs to its end, sys.exit(main()): argparse yields a,
\* --log-dir names log_dir
Main ==
    /\ pc = "idle"
    /\ \E log_dir \in LogDirs, a \in Args, now \in Clock :
        \E r \in {main(a, log_dir, baseline_file, platform, now)} :
            /\ timings' = r.timings
            /\ args' = a
            /\ baseline_file' = r.file
            /\ baselines' = r.baselines
            /\ report' = r.report
            /\ exit_code' = r.exit_code
            /\ raised' = r.raised
    /\ pc' = "exited"
    /\ UNCHANGED platform
    /\ UNCHANGED pct_vars
    /\ UNCHANGED race_vars

\* something else than this program writes, replaces or removes the file
ExternalWrite ==
    /\ pc = "idle"
    /\ \E f \in ExternalFiles : baseline_file' = f
    /\ UNCHANGED <<platform, pc>>
    /\ UNCHANGED proc_vars
    /\ UNCHANGED pct_vars
    /\ UNCHANGED race_vars

\* the process ends; the next one starts on the same machine
Exit ==
    /\ pc \in {"parsed", "saved", "loaded", "reloaded", "checked", "exited"}
    /\ pc' = "idle"
    /\ timings' = <<>>
    /\ args' = DefaultArgs
    /\ baselines' = <<>>
    /\ report' = RegressionReport
    /\ exit_code' = NoExit
    /\ raised' = "none"
    /\ UNCHANGED <<baseline_file, platform>>
    /\ UNCHANGED pct_vars
    /\ UNCHANGED race_vars

\* invocation w, run with --update-baseline on logs that yield timings,
\* builds its document in save_baseline and opens the baseline file.  The
\* clock may read a whole second, which isoformat prints without
\* microseconds.
RaceOpen(w) ==
    /\ writers[w].pc = "start"
    /\ \E log_dir \in LogDirs,
          now \in Clock \cup {"2026-01-01T12:00:01Z"} :
        \E parsed \in {parse_jsonl_logs(log_dir, platform)} :
            /\ parsed.raised = "none"
            /\ parsed.value # <<>>
            /\ writers' = [writers EXCEPT ![w] =
                   [pc |-> "open", timings |-> parsed.value,
                    text |-> json_dump(baseline_document(parsed.value,
                                                         platform, now))]]
    /\ baseline_file' = open_w(baseline_file)
    /\ UNCHANGED <<last_write, platform, pc>>
    /\ UNCHANGED proc_vars
    /\ UNCHANGED pct_vars

\* the with-block of invocation w ends: the file is closed, and the file
\* object writes its buffer, the whole text, to the file
RaceClose(w) ==
    /\ writers[w].pc = "open"
    /\ fits_buffer(writers[w].text)
    /\ baseline_file' = File(write_at(baseline_file.text, writers[w].text))
    /\ writers' = [writers EXCEPT ![w].pc = "closed"]
    /\ last_write' = w
    /\ UNCHANGED <<platform, pc>>
    /\ UNCHANGED proc_vars
    /\ UNCHANGED pct_vars

(***************************************************************************)
(* Specifications.                                                         *)
(***************************************************************************)
ProcInit ==
    /\ timings = <<>>
    /\ args = DefaultArgs
    /\ baselines = <<>>
    /\ report = RegressionReport
    /\ exit_code = NoExit
    /\ raised = "none"

PctIdle ==
    /\ durations = <<>>
    /\ percentile = 0
    /\ pct_result = FZero

\* no concurrent invocation has started
RaceIdle ==
    /\ writers = [w \in Invocations |->
                      [pc |-> "start", timings |-> <<>>, text |-> <<>>]]
    /\ last_write = "none"

\* The script and its store: a machine with no baseline file yet.
Init ==
    /\ pc = "idle"
    /\ baseline_file = NoFile
    /\ platform \in Platforms
    /\ ProcInit
    /\ PctIdle
    /\ RaceIdle

Next ==
    \/ ParseJsonlLogs
    \/ SaveBaseline
    \/ LoadBaseline
    \/ CheckRegressions(TimingLists(LogDurations))
    \/ Main
    \/ ExternalWrite
    \/ Exit

Spec == Init /\ [][Next]_vars

\* The classifier as a function: any baselines a caller may pass.
InitClassify ==
    /\ pc = "loaded"
    /\ baseline_file = NoFile
    /\ platform \in Platforms
    /\ timings = <<>>
    /\ args = DefaultArgs
    /\ baselines \in CallerBaselineMaps
    /\ report = RegressionReport
    /\ exit_code = NoExit
    /\ raised = "none"
    /\ PctIdle
    /\ RaceIdle

NextClassify == CheckRegressions(TimingLists(Durations))

SpecClassify == InitClassify /\ [][NextClassify]_vars

\* The percentile engine as a function: any list, any whole percent.
InitPct ==
    /\ pc = "pct_ready"
    /\ durations \in SeqsUpTo(SampleValues, MaxSamples)
    /\ percentile \in Percentiles
    /\ pct_result = FZero
    /\ baseline_file = NoFile
    /\ platform = "linux-x64"
    /\ ProcInit
    /\ RaceIdle

NextPct == CalculatePercentile

SpecPct == InitPct /\ [][NextPct]_vars

\* Two invocations of main --update-baseline on one machine and one path,
\* with nothing that orders them.
NextRace == \E w \in Invocations : RaceOpen(w) \/ RaceClose(w)

SpecRace == Init /\ [][NextRace]_vars

(***************************************************************************)
(* Properties of the percentile engine (SpecPct).                          *)
(***************************************************************************)
\* how many elements of the list s lie below v, and how many do not exceed v
CountBelow(s, v) == Cardinality({i \in 1..Len(s) : s[i] < v})
CountUpTo(s, v) == Cardinality({i \in 1..Len(s) : s[i] <= v})

\* the i-th smallest element (i from 1) of the non-empty list s, by rank
OrderStatistic(s, i) ==
    CHOOSE v \in {s[j] : j \in 1..Len(s)} :
        CountBelow(s, v) < i /\ i <= CountUpTo(s, v)

Min(a, b) == IF a <= b THEN a ELSE b

\* the reference linear-interpolation percentile of a non-empty list, on
\* floats: k = (n-1)*p/100, f = floor(k), c = min(f+1, n-1),
\* s[f] + (k-f)*(s[c]-s[f]), s ascending and indexed from 0
ReferencePercentile(values, p) ==
    LET n == Len(values)
        k == FMul(FInt(n - 1), FDiv(FInt(p), FInt(100)))
        f == int(k)
        c == Min(f + 1, n - 1)
        sf == OrderStatistic(values, f + 1)
        sc == OrderStatistic(values, c + 1)
    IN  FAdd(FInt(sf), FMul(FSub(k, FInt(f)), FInt(sc - sf)))

\* the same percentile on exact numbers, in hundredths: with integer values
\* and a whole percent p it has no more than two decimals
ReferenceHundredths(values, p) ==
    LET n == Len(values)
        f == ((n - 1) * p) \div 100
        c == Min(f + 1, n - 1)
        sf == OrderStatistic(values, f + 1)
        sc == OrderStatistic(values, c + 1)
    IN  100 * sf + ((n - 1) * p - 100 * f) * (sc - sf)

\* C9: calculate_percentile returns 0.0 for an empty list and otherwise the
\* reference linear-interpolation percentile of the list, the float that the
\* reference formula yields, which is the exact value of the formula to two
\* decimals; a one-element list yields its element for any p, and [10, 20]
\* at p = 50 yields 15.
C9_PercentileIsReference ==
    pc = "pct_done" =>
        /\ durations = <<>> => pct_result = FZero
        /\ durations # <<>> =>
            /\ pct_result = ReferencePercentile(durations, percentile)
            /\ round(pct_result, 100) = ReferenceHundredths(durations, percentile)
        /\ Len(durations) = 1 => pct_result = FInt(durations[1])
        /\ (durations = <<10, 20>> /\ percentile = 50) => pct_result = FInt(15)

\* C9 witness: an unsorted two-element list is interpolated at its middle.
C9_Witness ==
    /\ pc = "pct_done"
    /\ durations = <<20, 10>>
    /\ percentile = 50
    /\ pct_result = FInt(15)

\* C10: for a non-empty list of non-negative durations and p1 <= p2,
\* 0 <= calculate_percentile(d, p1) <= calculate_percentile(d, p2).  The
\* result of every call is at least 0 and at least the result for the whole
\* percent before; the calls cover every list and every whole percent, so
\* the results ascend from each percent to every later one.
C10_PercentileMonotonic ==
    (pc = "pct_done" /\ durations # <<>>) =>
        /\ FLE(FZero, pct_result)
        /\ percentile > 0 =>
               FLE(calculate_percentile(durations, percentile - 1), pct_result)

\* C10 witness: an unsorted list whose p95 lies strictly above its median
\* and strictly below its maximum.
C10_Witness ==
    /\ pc = "pct_done"
    /\ durations = <<50, 0, 20>>
    /\ percentile = OUTLIER_PERCENTILE
    /\ FLT(calculate_percentile(durations, 50), pct_result)
    /\ FLT(pct_result, calculate_percentile(durations, 100))

(***************************************************************************)
(* Properties of the classifier (SpecClassify).                            *)
(***************************************************************************)
\* the test names of a list of timing records
NamesOf(ts) == {ts[i].test_name : i \in 1..Len(ts)}

\* the durations recorded for the test name, in the order of the records
RECURSIVE DurationsOf(_, _)
DurationsOf(ts, name) ==
    IF ts = <<>> THEN <<>>
    ELSE IF Head(ts).test_name = name
    THEN <<Head(ts).duration_ms>> \o DurationsOf(Tail(ts), name)
    ELSE DurationsOf(Tail(ts), name)

\* the records of ts whose test name is not in names
RECURSIVE Without(_, _)
Without(ts, names) ==
    IF ts = <<>> THEN <<>>
    ELSE IF Head(ts).test_name \in names THEN Without(Tail(ts), names)
    ELSE <<Head(ts)>> \o Without(Tail(ts), names)

\* how many entries of a report list are about the test name
EntriesFor(entries, name) ==
    Cardinality({i \in 1..Len(entries) : entries[i].test_name = name})

\* check_regressions has returned a report for the timings in the state
Checked == pc = "checked" /\ raised = "none"

\* the tests of the run with no entry in the baseline mapping
Absent == {nm \in NamesOf(timings) : nm \notin DOMAIN baselines}

\* the tests of the run whose baseline names another platform
Mismatched ==
    {nm \in NamesOf(timings) \ Absent :
        /\ baselines[nm].platform.t = "str"
        /\ baselines[nm].platform.s # ""
        /\ baselines[nm].platform.s # platform}

\* the tests of the run whose baseline is compared: platform unrecorded or
\* the current one, and p95_ms > 0
Compared ==
    {nm \in NamesOf(timings) \ (Absent \cup Mismatched) :
        baselines[nm].p95_ms.t = "num" /\ baselines[nm].p95_ms.v > 0}

CurrentP95(nm) ==
    calculate_percentile(DurationsOf(timings, nm), OUTLIER_PERCENTILE)

\* ratio = current_p95 / baseline.p95_ms of the test nm, whose baseline has
\* a p95_ms above 0 (a number of hundredths)
Ratio(nm) ==
    FDiv(CurrentP95(nm), FDiv(FInt(baselines[nm].p95_ms.v), FInt(100)))

\* where the ratio of the test nm lies: above the threshold, below
\* 1 / threshold, or from 1 / threshold to the threshold
Verdict(nm) ==
    LET ratio == Ratio(nm)
    IN  IF FLT(args.threshold, ratio) THEN "regression"
        ELSE IF FLT(ratio, FDiv(FInt(1), args.threshold)) THEN "improvement"
        ELSE "stable"

\* the compared tests, each with its verdict
Verdicts == {<<nm, Verdict(nm)>> : nm \in Compared}

\* C1: every compared test with ratio > threshold has exactly one entry in
\* regressions and adds one to failed; otherwise, with ratio < 1/threshold,
\* exactly one entry in improvements and adds one to passed; otherwise
\* (1/threshold <= ratio <= threshold) it adds one to passed and has no entry
\* in regressions, improvements or new_tests.
C1_Classification ==
    Checked =>
        LET verdicts == Verdicts
            Regressed == {v[1] : v \in {w \in verdicts : w[2] = "regression"}}
            Improved == {v[1] : v \in {w \in verdicts : w[2] = "improvement"}}
            Stable == {v[1] : v \in {w \in verdicts : w[2] = "stable"}}
        IN  /\ \A nm \in Regressed :
                /\ EntriesFor(report.regressions, nm) = 1
                /\ EntriesFor(report.improvements, nm) = 0
                /\ EntriesFor(report.new_tests, nm) = 0
            /\ \A nm \in Improved :
                /\ EntriesFor(report.improvements, nm) = 1
                /\ EntriesFor(report.regressions, nm) = 0
                /\ EntriesFor(report.new_tests, nm) = 0
            /\ \A nm \in Stable :
                /\ EntriesFor(report.regressions, nm) = 0
                /\ EntriesFor(report.improvements, nm) = 0
                /\ EntriesFor(report.new_tests, nm) = 0
            /\ report.failed = Cardinality(Regressed)
            /\ report.passed = Cardinality(Improved) + Cardinality(Stable)

\* C1 witness: one test sits exactly on the threshold and is stable (the
\* bound is inclusive) while the other one has regressed or improved.
C1_Witness ==
    /\ Checked
    /\ Len(report.regressions) + Len(report.improvements) = 1
    /\ report.passed + report.failed = 2
    /\ \E nm \in Compared :
        /\ Ratio(nm) = args.threshold
        /\ EntriesFor(report.regressions, nm) = 0
        /\ EntriesFor(report.improvements, nm) = 0

\* C2: a test whose baseline names another platform gets exactly one
\* new_tests entry with the platform-mismatch reason, and the rest of the
\* report (regressions, improvements, passed, failed) is what it is
\* without that test, whatever its current and baseline p95.
C2_PlatformMismatch ==
    (Checked /\ Mismatched # {}) =>
        LET rest == check_regressions(Without(timings, Mismatched), baselines,
                                      args.threshold, platform).report
        IN  /\ \A nm \in Mismatched :
                /\ EntriesFor(report.new_tests, nm) = 1
                /\ \E i \in 1..Len(report.new_tests) :
                    /\ report.new_tests[i].test_name = nm
                    /\ DOMAIN report.new_tests[i] =
                           {"test_name", "current_p95_ms", "reason"}
                    /\ report.new_tests[i].reason =
                           mismatch_reason(baselines[nm].platform.s, platform)
                /\ EntriesFor(report.regressions, nm) = 0
                /\ EntriesFor(report.improvements, nm) = 0
            /\ report.regressions = rest.regressions
            /\ report.improvements = rest.improvements
            /\ report.passed = rest.passed
            /\ report.failed = rest.failed

\* C2 witness: a test 50% slower than a baseline of another platform is
\* reported as new, and nothing has failed.
C2_Witness ==
    /\ Checked
    /\ \E nm \in Mismatched :
        /\ baselines[nm].p95_ms.v > 0
        /\ FLT(args.threshold, Ratio(nm))
        /\ EntriesFor(report.new_tests, nm) = 1
    /\ report.failed = 0

\* C3: a test of the run that is absent from the baseline mapping gets
\* exactly one new_tests entry and leaves passed and failed as they are
\* without it; with an empty mapping every test is new and
\* passed = failed = 0.
C3_NoBaseline ==
    Checked =>
        LET rest == check_regressions(Without(timings, Absent), baselines,
                                      args.threshold, platform).report
        IN  /\ \A nm \in Absent : EntriesFor(report.new_tests, nm) = 1
            /\ Absent # {} =>
                /\ report.passed = rest.passed
                /\ report.failed = rest.failed
            /\ DOMAIN baselines = {} =>
                /\ Len(report.new_tests) = Cardinality(NamesOf(timings))
                /\ report.passed = 0
                /\ report.failed = 0

\* C3 witness: one test has no baseline while the other one is compared
\* and counted.
C3_Witness ==
    /\ Checked
    /\ Absent # {}
    /\ Compared # {}
    /\ report.passed + report.failed = 1
    /\ Len(report.new_tests) = 1

\* C4: total_tests is the number of distinct test names, failed is the
\* number of regressions entries, and
\* total_tests = passed + failed + number of new_tests entries.
C4_Counters ==
    Checked =>
        /\ report.total_tests = Cardinality(NamesOf(timings))
        /\ report.failed = Len(report.regressions)
        /\ report.total_tests
               = report.passed + report.failed + Len(report.new_tests)

\* C4 witness: two records of one test and a report with a failure.
C4_Witness ==
    /\ Checked
    /\ Len(timings) > Cardinality(NamesOf(timings))
    /\ report.failed = 1

\* the tests of the run whose baseline is on a matching or unrecorded
\* platform and has a p95_ms of 0
ZeroP95 ==
    {nm \in NamesOf(timings) \ (Absent \cup Mismatched) :
        baselines[nm].p95_ms.t = "num" /\ baselines[nm].p95_ms.v = 0}

\* check_regressions was called with numeric p95_ms values only
NumericBaselines ==
    \A nm \in NamesOf(timings) \ Absent : baselines[nm].p95_ms.t = "num"

\* C11: a test whose baseline is on a matching (or unrecorded) platform and
\* has p95_ms = 0 gets exactly one new_tests entry, with the reason
\* "no baseline p95"; the call returns (no ZeroDivisionError, no ratio in
\* the entry), the test has no entry in regressions or improvements, and
\* passed and failed are what they are without that test.
C11_ZeroBaselineP95 ==
    (pc = "checked" /\ NumericBaselines /\ ZeroP95 # {}) =>
        /\ raised = "none"
        /\ LET rest == check_regressions(Without(timings, ZeroP95), baselines,
                                         args.threshold, platform).report
           IN  /\ \A nm \in ZeroP95 :
                   /\ EntriesFor(report.new_tests, nm) = 1
                   /\ \E i \in 1..Len(report.new_tests) :
                       /\ report.new_tests[i] =
                              [test_name |-> nm,
                               current_p95_ms |->
                                   round(CurrentP95(nm), 100),
                               reason |-> "no baseline p95"]
                   /\ EntriesFor(report.regressions, nm) = 0
                   /\ EntriesFor(report.improvements, nm) = 0
               /\ report.passed = rest.passed
               /\ report.failed = rest.failed

\* C11 witness: a test that ran for a positive time against a baseline p95
\* of 0 is reported as new, next to a test that was compared and counted.
C11_Witness ==
    /\ Checked
    /\ \E nm \in ZeroP95 :
        /\ FLT(FZero, CurrentP95(nm))
        /\ \E i \in 1..Len(report.new_tests) :
            /\ report.new_tests[i].test_name = nm
            /\ report.new_tests[i].reason = "no baseline p95"
    /\ Compared # {}
    /\ report.passed + report.failed = 1

(***************************************************************************)
(* Properties of the store and of main (Spec).                             *)
(***************************************************************************)
\* the test names of the test chunks of a file's text
NamesInText(text) ==
    {text[i].name : i \in {j \in 1..Len(text) : text[j].k = "test"}}

\* the process that ran main has ended
Exited == pc = "exited"

\* C5 as stated: the exit code of the process is 1 exactly when a test
\* regressed (failed > 0), 2 when no timing data was found, and 0 when data
\* was found and no test regressed.
C5_ExitCodeAsStated ==
    Exited =>
        /\ exit_code = 1 <=> report.failed > 0
        /\ timings = <<>> => exit_code = 2
        /\ (timings # <<>> /\ report.failed = 0) => exit_code = 0

\* C6: after save_baseline the file holds exactly the test names of that
\* call's run, whatever it held before, and load_baseline returns entries
\* for those names only.
C6_SaveOverwrites ==
    pc = "saved" =>
        /\ NamesInText(baseline_file.text) = NamesOf(timings)
        /\ load_baseline(baseline_file).raised = "none"
        /\ DOMAIN load_baseline(baseline_file).value = NamesOf(timings)

\* C6 witness: the file held a test (loaded just before the save) that the
\* saved run does not contain.
C6_Witness ==
    /\ pc = "saved"
    /\ timings # <<>>
    /\ \E nm \in DOMAIN baselines : nm \notin NamesOf(timings)

\* C7: load_baseline after save_baseline returns a baseline for every test
\* name of the run and only those, with sample_count the number of
\* durations recorded for the test (an int) and p95_ms the 95th percentile
\* of those durations rounded to 2 decimals (a float): the value that
\* calculate_percentile and round yield, which is the exact percentile of
\* the reference formula, and the value that the numerals of the file
\* spell.
C7_RoundTrip ==
    pc = "reloaded" =>
        /\ raised = "none"
        /\ DOMAIN baselines = NamesOf(timings)
        /\ \A nm \in NamesOf(timings) :
            /\ baselines[nm].sample_count
                   = IntNum(Cardinality({i \in 1..Len(timings) :
                                            timings[i].test_name = nm}))
            /\ baselines[nm].p95_ms
                   = FloatNum(round(calculate_percentile(
                                        DurationsOf(timings, nm), 95), 100))
            /\ baselines[nm].p95_ms
                   = FloatNum(ReferenceHundredths(DurationsOf(timings, nm), 95))
            /\ \E i \in 1..Len(baseline_file.text) :
                /\ baseline_file.text[i].k = "test"
                /\ baseline_file.text[i].name = nm
                /\ parse_number(baseline_file.text[i].value.m.p95_ms.c)
                       = baselines[nm].p95_ms
                /\ parse_number(baseline_file.text[i].value.m.sample_count.c)
                       = baselines[nm].sample_count

\* C7 witness: a test with two different durations is written with the
\* numerals 2 and 147.5 and comes back with sample_count 2 and the
\* interpolated p95 of 147.5.
C7_Witness ==
    /\ pc = "reloaded"
    /\ \E nm \in DOMAIN baselines :
        /\ DurationsOf(timings, nm) = <<150, 100>>
        /\ baselines[nm].sample_count = IntNum(2)
        /\ baselines[nm].p95_ms = FloatNum(14750)
        /\ \E i \in 1..Len(baseline_file.text) :
            /\ baseline_file.text[i].k = "test"
            /\ baseline_file.text[i].name = nm
            /\ baseline_file.text[i].value.m.sample_count.c = <<"2">>
            /\ baseline_file.text[i].value.m.p95_ms.c
                   = <<"1", "4", "7", ".", "5">>

\* C8 as stated: whatever the baseline file holds, load_baseline returns a
\* mapping and check_regressions returns a report; no exception leaves
\* either call.
C8_NoAbort ==
    /\ pc \in {"loaded", "reloaded"} => raised = "none"
    /\ pc = "checked" =>
        /\ raised = "none"
        /\ report.total_tests = Cardinality(NamesOf(timings))

(***************************************************************************)
(* Properties of concurrent baseline updates (SpecRace).                   *)
(***************************************************************************)
\* every invocation has closed the file and returned
RaceDone == \A w \in Invocations : writers[w].pc = "closed"

\* C12 as stated: when both invocations have completed, the file holds
\* exactly the complete document of the invocation that wrote last, in
\* every interleaving.
C12_LastWriterWins ==
    RaceDone => baseline_file = File(writers[last_write].text)

=============================================================================
